---------------------------- MODULE Spec2Model ----------------------------
(***************************************************************************)
(* The Giphy plugin of src/plugin.go as a state machine: the plugin's      *)
(* fields (api, enabled, configuration), the host's hooks (OnActivate,     *)
(* OnConfigurationChange, OnDeactivate) and ExecuteCommand, whose call to  *)
(* the GIF provider is a step of its own so that hooks interleave with it. *)
(*                                                                         *)
(* A Go string is a sequence of atoms.  The text the code scans (command   *)
(* lines, placeholders) is spelled one character per atom; text it only    *)
(* copies (format literals, URLs, error texts) is one atom per literal.    *)
(***************************************************************************)
EXTENDS Integers, Sequences, FiniteSets, TLC

(***************************************************************************)
(* Bounds of the model.                                                    *)
(***************************************************************************)
MaxInvocations == 2
MaxPieces == 5
MaxTemplatePieces == 5
MaxUrls == 3

(***************************************************************************)
(* Program constants.                                                      *)
(***************************************************************************)
triggerGif == <<"g", "i", "f">>
triggerGifs == <<"g", "i", "f", "s">>
StatusBadRequest == 400
COMMAND_RESPONSE_TYPE_IN_CHANNEL == "in_channel"
COMMAND_RESPONSE_TYPE_EPHEMERAL == "ephemeral"
PlaceholderKeywords == <<"#", "#", "K", "E", "Y", "W", "O", "R", "D", "S", "#", "#">>
PlaceholderGifURL == <<"#", "#", "G", "I", "F", "_", "U", "R", "L", "#", "#">>
PlaceholderViaGiphy == <<"#", "#", "V", "I", "A", "_", "G", "I", "P", "H", "Y", "#", "#">>
ViaGiphy == <<"via ![giphy](https://giphy.com/static/img/favicon.png)">>
TAB == "\t"
SPACE == " "

(***************************************************************************)
(* The string functions of Go's library that the plugin calls.             *)
(***************************************************************************)
\* s[i..] begins with prefix (1-based i)
HasPrefixAt(s, i, prefix) ==
    /\ i + Len(prefix) - 1 <= Len(s)
    /\ SubSeq(s, i, i + Len(prefix) - 1) = prefix

HasPrefix(s, prefix) == HasPrefixAt(s, 1, prefix)

\* strings.Index, 1-based; 0 when old does not occur in s
Index(s, old) ==
    IF \E i \in 1..Len(s) : HasPrefixAt(s, i, old)
    THEN CHOOSE i \in 1..Len(s) :
            /\ HasPrefixAt(s, i, old)
            /\ \A j \in 1..(i - 1) : ~HasPrefixAt(s, j, old)
    ELSE 0

\* strings.Replace(s, old, new, 1): the first occurrence only
ReplaceFirst(s, old, new) ==
    LET i == Index(s, old)
    IN  IF i = 0 THEN s
        ELSE SubSeq(s, 1, i - 1) \o new \o SubSeq(s, i + Len(old), Len(s))

\* strings.Replace(s, old, new, -1): every occurrence, left to right
RECURSIVE ReplaceAll(_, _, _)
ReplaceAll(s, old, new) ==
    LET i == Index(s, old)
    IN  IF i = 0 THEN s
        ELSE SubSeq(s, 1, i - 1) \o new
                \o ReplaceAll(SubSeq(s, i + Len(old), Len(s)), old, new)

RECURSIVE TrimLeft(_, _)
TrimLeft(s, c) ==
    IF s # <<>> /\ Head(s) = c THEN TrimLeft(Tail(s), c) ELSE s

RECURSIVE TrimRight(_, _)
TrimRight(s, c) ==
    IF s # <<>> /\ s[Len(s)] = c THEN TrimRight(SubSeq(s, 1, Len(s) - 1), c) ELSE s

\* strings.Trim(s, cutset) for a cutset of one character
Trim(s, c) == TrimRight(TrimLeft(s, c), c)

\* strings.NewReplacer(pairs...).Replace(s): at each position, left to right,
\* the first pair (in argument order) whose old string begins there is
\* written and skipped; otherwise the character is copied.  What was written
\* is not scanned again.
RECURSIVE ReplacerFrom(_, _, _)
ReplacerFrom(s, i, pairs) ==
    IF i > Len(s) THEN <<>>
    ELSE IF \E k \in 1..Len(pairs) : HasPrefixAt(s, i, pairs[k][1])
    THEN LET k == CHOOSE k \in 1..Len(pairs) :
                    /\ HasPrefixAt(s, i, pairs[k][1])
                    /\ \A j \in 1..(k - 1) : ~HasPrefixAt(s, i, pairs[j][1])
         IN  pairs[k][2] \o ReplacerFrom(s, i + Len(pairs[k][1]), pairs)
    ELSE <<s[i]>> \o ReplacerFrom(s, i + 1, pairs)

ReplacerReplace(pairs, s) == ReplacerFrom(s, 1, pairs)

(***************************************************************************)
(* The plugin's pure functions.                                            *)
(***************************************************************************)
getCommandKeywordsAll(commandLine, trigger) ==
    Trim(ReplaceAll(commandLine, <<"/">> \o trigger, <<>>), SPACE)

getCommandKeywords(commandLine, trigger) ==
    Trim(ReplaceFirst(commandLine, <<"/">> \o trigger, <<>>), SPACE)

ResponsePairs(keywords, gifURL) ==
    << <<PlaceholderKeywords, keywords>>,
       <<PlaceholderGifURL, gifURL>>,
       <<PlaceholderViaGiphy, ViaGiphy>> >>

\* one strings.Replace(-1) after another: what is inserted is scanned again
applyResponseTemplateSequential(template, keywords, gifURL) ==
    ReplaceAll(ReplaceAll(ReplaceAll(template, PlaceholderKeywords, keywords),
                          PlaceholderGifURL, gifURL),
               PlaceholderViaGiphy, ViaGiphy)

applyResponseTemplate(template, keywords, gifURL) ==
    ReplacerReplace(ResponsePairs(keywords, gifURL), template)

NilError == <<>>

\* an error returns no text for Error() when it is nil
appErrorNoDetail(message, err) ==
    [Where |-> <<"Giphy Plugin">>, Message |-> message,
     DetailedError |-> <<>>, StatusCode |-> StatusBadRequest]

appError(message, err) ==
    [Where |-> <<"Giphy Plugin">>, Message |-> message,
     DetailedError |-> IF err # NilError THEN err[1] ELSE <<>>,
     StatusCode |-> StatusBadRequest]

GifsHeader(keywords) == <<" *Suggestions for '">> \o keywords \o <<"':*">>

GifLink(keywords, url) ==
    <<"[![GIF for '">> \o keywords \o <<"'](">> \o url \o <<")](">> \o url \o <<")">>

\* the loop of executeCommandGifs over gifURLs[i..], appended to text
RECURSIVE GifsLoopTabAfter(_, _, _, _)
GifsLoopTabAfter(text, keywords, gifURLs, i) ==
    IF i > Len(gifURLs) THEN text
    ELSE GifsLoopTabAfter(text \o GifLink(keywords, gifURLs[i]) \o <<TAB>>,
                          keywords, gifURLs, i + 1)

RECURSIVE GifsLoop(_, _, _, _)
GifsLoop(text, keywords, gifURLs, i) ==
    IF i > Len(gifURLs) THEN text
    ELSE GifsLoop(text \o (IF i > 1 THEN <<TAB>> ELSE <<>>)
                       \o GifLink(keywords, gifURLs[i]),
                  keywords, gifURLs, i + 1)

GifsText(keywords, gifURLs) == GifsLoop(GifsHeader(keywords), keywords, gifURLs, 1)

\* ExecuteCommand's choice of a path, "/gif" tested first
DispatchGifFirst(command) ==
    IF HasPrefix(command, <<"/">> \o triggerGif) THEN "gif"
    ELSE IF HasPrefix(command, <<"/">> \o triggerGifs) THEN "gifs"
    ELSE "unsupported"

Dispatch(command) ==
    IF HasPrefix(command, <<"/">> \o triggerGifs) THEN "gifs"
    ELSE IF HasPrefix(command, <<"/">> \o triggerGif) THEN "gif"
    ELSE "unsupported"

(***************************************************************************)
(* Configuration snapshots and what the host's LoadPluginConfiguration can *)
(* leave in the struct it is given: a full configuration and no error, or  *)
(* an error with the struct still zero or filled in part.                  *)
(***************************************************************************)
TemplateA == <<"x">> \o PlaceholderKeywords \o <<"x">> \o PlaceholderGifURL
                \o PlaceholderViaGiphy
TemplateB == PlaceholderGifURL

ConfigA ==
    [Rating |-> <<"g">>, Language |-> <<"en">>, Rendition |-> <<"fixed_height">>,
     ResponseTemplate |-> TemplateA, APIKey |-> <<"key-a">>]
ConfigB ==
    [Rating |-> <<"pg">>, Language |-> <<"fr">>, Rendition |-> <<"downsized">>,
     ResponseTemplate |-> TemplateB, APIKey |-> <<"key-b">>]
ZeroConfig ==
    [Rating |-> <<>>, Language |-> <<>>, Rendition |-> <<>>,
     ResponseTemplate |-> <<>>, APIKey |-> <<>>]
PartialConfig == [ZeroConfig EXCEPT !.Rating = <<"pg">>]

LoadError == <<<<"cannot load the plugin configuration">>>>
RegisterError == <<<<"cannot register the command">>>>

LoadOutcomes ==
    {[cfg |-> ConfigA, err |-> NilError], [cfg |-> ConfigB, err |-> NilError],
     [cfg |-> ZeroConfig, err |-> LoadError],
     [cfg |-> PartialConfig, err |-> LoadError]}

(***************************************************************************)
(* Command lines the host hands to ExecuteCommand, and the outcomes of the *)
(* provider's calls.                                                       *)
(***************************************************************************)
CmdGif == <<"/", "g", "i", "f", " ", "k">>
CmdGifs == <<"/", "g", "i", "f", "s", " ", "k">>
CmdFoo == <<"/", "f", "o", "o", " ", "b", "a", "r">>
CmdGifted == <<"/", "g", "i", "f", "t", "e", "d", " ", "k">>
Commands == {CmdGif, CmdGifs, CmdFoo, CmdGifted}

URL1 == <<"http://x/1.gif">>
URL2 == <<"http://x/2.gif">>
ProviderError == <<<<"giphy: request failed">>>>
FailedCall == [urls |-> <<>>, err |-> ProviderError]

\* getGifURL returns one URL (urls[1]) or an error
GifResults == {[urls |-> <<URL1>>, err |-> NilError], FailedCall}
\* getMultipleGifsURL returns a list of URLs or an error
GifsResults == {[urls |-> <<URL1, URL2>>, err |-> NilError], FailedCall}

(***************************************************************************)
(* State.                                                                  *)
(***************************************************************************)
VARIABLES
    api,            \* GiphyPlugin.api: "nil" or "api"
    enabled,        \* GiphyPlugin.enabled
    configuration,  \* GiphyPlugin.configuration: <<>> (nothing stored) or <<snapshot>>
    inv,            \* the ExecuteCommand invocations in progress, one per slot
    crashed,        \* the plugin process has panicked
    lifecycle,      \* history: the last of OnActivate / OnDeactivate the host called
    loaded          \* history: <<>> or <<the last outcome of LoadPluginConfiguration
                    \* and the error the hook that loaded it returned>>

vars == <<api, enabled, configuration, inv, crashed, lifecycle, loaded>>

Procs == 1..MaxInvocations

IdleInvocation ==
    [pc |-> "idle", command |-> <<>>, entry |-> "",
     calls |-> <<>>, result |-> <<>>, response |-> <<>>, err |-> <<>>]

Init ==
    /\ api = "nil"
    /\ enabled = FALSE
    /\ configuration = <<>>
    /\ inv = [p \in Procs |-> IdleInvocation]
    /\ crashed = FALSE
    /\ lifecycle = "deactivated"
    /\ loaded = <<>>

(***************************************************************************)
(* Hooks.                                                                  *)
(***************************************************************************)
\* the outcomes of OnActivate's calls of RegisterCommand: the first fails (and
\* the second is not made), the second fails, or both succeed
RegisterOutcomes == {<<RegisterError>>, <<NilError, RegisterError>>, <<NilError, NilError>>}

\* the body of OnConfigurationChange with the outcome o of
\* LoadPluginConfiguration, its Store skipped when the load failed
StoreLoadedUnlessError(o) ==
    /\ loaded' = <<[cfg |-> o.cfg, err |-> o.err, returned |-> o.err]>>
    /\ configuration' = IF o.err = NilError THEN <<o.cfg>> ELSE configuration

\* the body of OnConfigurationChange with the outcome o of LoadPluginConfiguration
StoreLoaded(o) ==
    /\ loaded' = <<[cfg |-> o.cfg, err |-> o.err, returned |-> o.err]>>
    /\ configuration' = <<o.cfg>>

OnConfigurationChange ==
    /\ ~crashed
    /\ IF api = "nil"
       THEN \* p.api.LoadPluginConfiguration on a nil interface panics
            /\ crashed' = TRUE
            /\ UNCHANGED <<configuration, loaded>>
       ELSE /\ \E o \in LoadOutcomes : StoreLoaded(o)
            /\ UNCHANGED crashed
    /\ UNCHANGED <<api, enabled, inv, lifecycle>>

OnActivate ==
    /\ ~crashed
    /\ api' = "api"
    /\ enabled' = TRUE
    /\ lifecycle' = "activated"
    /\ \E reg \in RegisterOutcomes :
            IF reg[Len(reg)] # NilError
            THEN \* return err
                 UNCHANGED <<configuration, loaded>>
            ELSE \* return p.OnConfigurationChange()
                 \E o \in LoadOutcomes : StoreLoaded(o)
    /\ UNCHANGED <<inv, crashed>>

\* a deactivation that leaves the flag as it is
OnDeactivateKeepsEnabled ==
    /\ ~crashed
    /\ lifecycle' = "deactivated"
    /\ UNCHANGED <<enabled, api, configuration, inv, crashed, loaded>>

OnDeactivate ==
    /\ ~crashed
    /\ enabled' = FALSE
    /\ lifecycle' = "deactivated"
    /\ UNCHANGED <<api, configuration, inv, crashed, loaded>>

(***************************************************************************)
(* ExecuteCommand.  Its first step runs from the entry to the provider     *)
(* call (the readiness checks, the choice of a path, the keywords, the     *)
(* Load of the snapshot); its second step is the provider's return and the *)
(* building of the reply.  The host then takes the reply.                  *)
(*                                                                         *)
(* enabled and api are plain fields, written by the hooks and read here    *)
(* with no synchronization.  An invocation that runs beside a hook reads   *)
(* the value from before or from after the hook's write: both are steps of *)
(* this model, the first step of ExecuteCommand falling before or after    *)
(* the hook.  A panic ends the plugin process: nothing moves afterwards.   *)
(***************************************************************************)
MsgDisabled == <<"Cannot execute command while the plugin is disabled.">>
MsgNoAPI == <<"Cannot access the plugin API.">>
MsgProvider == <<"Unable to get GIF URL">>
MsgUnsupported(command) ==
    <<"Command trigger ">> \o command \o <<"is not supported by this plugin.">>

ProviderCall(path, command) ==
    [fn |-> IF path = "gifs" THEN "getMultipleGifsURL" ELSE "getGifURL",
     config |-> configuration[1],
     keywords |-> getCommandKeywords(command,
                                     IF path = "gifs" THEN triggerGifs ELSE triggerGif)]

ExecuteCommand(p, command) ==
    /\ ~crashed
    /\ inv[p].pc = "idle"
    /\ LET entered == [IdleInvocation EXCEPT !.command = command,
                                             !.entry = lifecycle]
           path == Dispatch(command)
           panics == enabled /\ api # "nil" /\ path # "unsupported"
                        /\ configuration = <<>>
       IN  /\ crashed' = panics
           /\ inv' = [inv EXCEPT ![p] =
                IF ~enabled
                THEN [entered EXCEPT !.pc = "returned",
                                     !.err = <<appError(MsgDisabled, NilError)>>]
                ELSE IF api = "nil"
                THEN [entered EXCEPT !.pc = "returned",
                                     !.err = <<appError(MsgNoAPI, NilError)>>]
                ELSE IF path = "unsupported"
                THEN [entered EXCEPT !.pc = "returned",
                        !.err = <<appError(MsgUnsupported(command), NilError)>>]
                ELSE IF panics
                THEN \* config(): Load() of the empty holder is nil, and the
                     \* type assertion on it panics
                     [entered EXCEPT !.pc = "panicked"]
                ELSE [entered EXCEPT !.pc = "calling",
                                     !.calls = <<ProviderCall(path, command)>>]]
    /\ UNCHANGED <<api, enabled, configuration, lifecycle, loaded>>

\* the template read from the holder again when the reply is built
ResponseTemplateReloaded(p) == configuration[1].ResponseTemplate

\* config.ResponseTemplate of the snapshot executeCommandGif loaded
ResponseTemplateOf(p) == inv[p].calls[1].config.ResponseTemplate

Reply(p, r) ==
    LET call == inv[p].calls[1]
    IN  IF r.err # NilError
        THEN [inv[p] EXCEPT !.pc = "returned", !.result = <<r>>,
                            !.err = <<appError(MsgProvider, r.err)>>]
        ELSE IF call.fn = "getGifURL"
        THEN [inv[p] EXCEPT !.pc = "returned", !.result = <<r>>,
                !.response = <<[ResponseType |-> COMMAND_RESPONSE_TYPE_IN_CHANNEL,
                                Text |-> applyResponseTemplate(ResponseTemplateOf(p),
                                            call.keywords, r.urls[1])]>>]
        ELSE [inv[p] EXCEPT !.pc = "returned", !.result = <<r>>,
                !.response = <<[ResponseType |-> COMMAND_RESPONSE_TYPE_EPHEMERAL,
                                Text |-> GifsText(call.keywords, r.urls)]>>]

ProviderReturns(p, gifResults, gifsResults) ==
    /\ ~crashed
    /\ inv[p].pc = "calling"
    /\ \E r \in (IF inv[p].calls[1].fn = "getGifURL" THEN gifResults ELSE gifsResults) :
            inv' = [inv EXCEPT ![p] = Reply(p, r)]
    /\ UNCHANGED <<api, enabled, configuration, crashed, lifecycle, loaded>>

HostReceives(p) ==
    /\ ~crashed
    /\ inv[p].pc = "returned"
    /\ inv' = [inv EXCEPT ![p] = IdleInvocation]
    /\ UNCHANGED <<api, enabled, configuration, crashed, lifecycle, loaded>>

Next ==
    \/ OnActivate
    \/ OnConfigurationChange
    \/ OnDeactivate
    \/ \E p \in Procs, command \in Commands : ExecuteCommand(p, command)
    \/ \E p \in Procs : ProviderReturns(p, GifResults, GifsResults)
    \/ \E p \in Procs : HostReceives(p)

Spec == Init /\ [][Next]_vars

(***************************************************************************)
(* Specifications for the pure functions: one invocation at a time on a    *)
(* plugin that OnActivate has activated, the command lines, the templates  *)
(* and the provider's results drawn from larger sets.                      *)
(***************************************************************************)
RECURSIVE Flatten(_)
Flatten(ss) == IF ss = <<>> THEN <<>> ELSE Head(ss) \o Flatten(Tail(ss))

SeqsUpTo(S, n) == UNION {[1..k -> S] : k \in 0..n}

\* the state after OnActivate succeeded and stored cfg
Activated(cfg) ==
    /\ api = "api"
    /\ enabled = TRUE
    /\ configuration = <<cfg>>
    /\ inv = [p \in Procs |-> IdleInvocation]
    /\ crashed = FALSE
    /\ lifecycle = "activated"
    /\ loaded = <<[cfg |-> cfg, err |-> NilError, returned |-> NilError]>>

KeywordPieces == {<<SPACE>>, <<"k">>, <<TAB>>, <<"/", "g", "i", "f", "s">>}
GifsCommandLines ==
    {<<"/", "g", "i", "f", "s">> \o Flatten(ps) : ps \in SeqsUpTo(KeywordPieces, MaxPieces)}

InitKeywords == Activated(ConfigA)
NextKeywords ==
    \/ \E command \in GifsCommandLines : ExecuteCommand(1, command)
    \/ ProviderReturns(1, GifResults, GifsResults)
    \/ HostReceives(1)
SpecKeywords == InitKeywords /\ [][NextKeywords]_vars

TemplatePieces ==
    {<<"#", "#">>, <<"x">>, <<"K", "E", "Y", "W", "O", "R", "D", "S">>,
     <<"G", "I", "F", "_", "U", "R", "L">>,
     <<"V", "I", "A", "_", "G", "I", "P", "H", "Y">>}
Templates == {Flatten(ps) : ps \in SeqsUpTo(TemplatePieces, MaxTemplatePieces)}
CmdGifPlaceholder == <<"/", "g", "i", "f", SPACE>> \o PlaceholderGifURL
TemplateCommands == {CmdGif, CmdGifPlaceholder}

InitTemplate == \E t \in Templates : Activated([ConfigA EXCEPT !.ResponseTemplate = t])
NextTemplate ==
    \/ \E command \in TemplateCommands : ExecuteCommand(1, command)
    \/ ProviderReturns(1, {[urls |-> <<URL1>>, err |-> NilError]}, GifsResults)
    \/ HostReceives(1)
SpecTemplate == InitTemplate /\ [][NextTemplate]_vars

URL3 == <<"http://x/3.gif">>
CmdGifsBare == <<"/", "g", "i", "f", "s">>
CmdGifsTab == <<"/", "g", "i", "f", "s", SPACE, "a", TAB, "b">>
GifsCommands == {CmdGifs, CmdGifsBare, CmdGifsTab}
UrlLists == {[urls |-> us, err |-> NilError] : us \in SeqsUpTo({URL1, URL2, URL3}, MaxUrls)}

InitGifs == Activated(ConfigA)
NextGifs ==
    \/ \E command \in GifsCommands : ExecuteCommand(1, command)
    \/ ProviderReturns(1, GifResults, UrlLists \cup {FailedCall})
    \/ HostReceives(1)
SpecGifs == InitGifs /\ [][NextGifs]_vars

(***************************************************************************)
(* What the claims speak of.                                               *)
(***************************************************************************)
\* the trigger of a command line: the leading token after "/"
TriggerOf(command) ==
    LET rest == Tail(command)
        sp == Index(rest, <<SPACE>>)
    IN  IF sp = 0 THEN rest ELSE SubSeq(rest, 1, sp - 1)

\* an error of the plugin with this message and detail, status 400
PluginError(message, detail) ==
    [Where |-> <<"Giphy Plugin">>, Message |-> message, DetailedError |-> detail,
     StatusCode |-> 400]

\* the invocation in slot p has made its provider call
Called(p) == inv[p].pc \in {"calling", "returned"} /\ inv[p].calls # <<>>

\* C1: an ExecuteCommand call entered while the plugin is deactivated (before
\* the first OnActivate, or after OnDeactivate and before the next OnActivate)
\* returns the not-ready error and no response, whatever its command line,
\* and calls the provider never.
C1_DeactivatedNotReady ==
    \A p \in Procs :
        inv[p].entry = "deactivated" =>
            /\ inv[p].pc = "returned"
            /\ inv[p].err = <<PluginError(MsgDisabled, <<>>)>>
            /\ inv[p].response = <<>>
            /\ inv[p].calls = <<>>
            /\ inv[p].result = <<>>

\* C1's case: "/gifs k" executed after OnDeactivate of a plugin that was
\* activated with a configuration
C1_Witness ==
    \E p \in Procs :
        /\ inv[p].entry = "deactivated"
        /\ inv[p].command = CmdGifs
        /\ inv[p].pc = "returned"
        /\ api = "api"
        /\ configuration # <<>>

\* C2: on an activated plugin a command line whose trigger is neither "gif"
\* nor "gifs" returns the unsupported-command error and calls the provider
\* never.
C2_UnknownTriggerUnsupported ==
    \A p \in Procs :
        (/\ inv[p].entry = "activated"
         /\ TriggerOf(inv[p].command) \notin {triggerGif, triggerGifs}) =>
            /\ inv[p].calls = <<>>
            /\ inv[p].pc = "returned" =>
                    /\ inv[p].err = <<PluginError(MsgUnsupported(inv[p].command), <<>>)>>
                    /\ inv[p].response = <<>>

\* C3: the configuration an invocation passes to the provider is the snapshot
\* that is in the holder at the step it makes the call, and the reply of
\* "/gif" is formatted with the ResponseTemplate of that same snapshot,
\* whatever OnConfigurationChange stores in between.
C3_OneSnapshot ==
    /\ [][\A p \in Procs :
            (inv[p].pc = "idle" /\ inv'[p].pc = "calling") =>
                <<inv'[p].calls[1].config>> = configuration]_vars
    /\ [](\A p \in Procs :
            (/\ inv[p].pc = "returned"
             /\ inv[p].response # <<>>
             /\ inv[p].calls[1].fn = "getGifURL") =>
                inv[p].response[1].Text =
                    ReplacerReplace(
                        ResponsePairs(inv[p].calls[1].keywords, inv[p].result[1].urls[1]),
                        inv[p].calls[1].config.ResponseTemplate))

\* C3's case: a "/gif" reply built after OnConfigurationChange replaced the
\* snapshot the invocation had loaded by one with another template
C3_Witness ==
    \E p \in Procs :
        /\ inv[p].pc = "returned"
        /\ inv[p].response # <<>>
        /\ inv[p].calls[1].fn = "getGifURL"
        /\ inv[p].calls[1].config = ConfigA
        /\ configuration = <<ConfigB>>

\* C7: an invocation makes at most one provider call, and when that call
\* fails it returns no response and the error "Unable to get GIF URL" with
\* the provider's error text as detail and status 400.
C7_ProviderErrorSurfaced ==
    \A p \in Procs :
        /\ Len(inv[p].calls) <= 1
        /\ (inv[p].result # <<>> /\ inv[p].result[1].err # NilError) =>
                /\ inv[p].pc = "returned"
                /\ inv[p].response = <<>>
                /\ inv[p].err = <<PluginError(MsgProvider, inv[p].result[1].err[1])>>
                /\ Len(inv[p].calls) = 1

\* C7's case: the provider call of "/gifs k" has failed
C7_Witness ==
    \E p \in Procs :
        /\ inv[p].command = CmdGifs
        /\ inv[p].result = <<FailedCall>>
        /\ inv[p].pc = "returned"

C9_ReadyImpliesStored ==
    /\ (enabled /\ api # "nil") => configuration # <<>>
    /\ \A p \in Procs : inv[p].pc # "panicked"

\* C10: the holder contains what the last LoadPluginConfiguration left in the
\* struct, also when that load failed, and the hook returned the load's
\* error.
C10_StoreOnEveryLoad ==
    loaded # <<>> =>
        /\ configuration = <<loaded[1].cfg>>
        /\ loaded[1].returned = loaded[1].err

\* C10's case: a load failed with the struct filled in part, after a full
\* configuration had been stored, and an invocation has passed the partly
\* filled snapshot to the provider
C10_Witness ==
    /\ loaded # <<>>
    /\ loaded[1].err # NilError
    /\ loaded[1].cfg = PartialConfig
    /\ \E p, q \in Procs :
        /\ inv[p].pc = "calling" /\ inv[p].calls[1].config = PartialConfig
        /\ inv[q].pc = "calling" /\ inv[q].calls[1].config = ConfigA

(***************************************************************************)
(* The pure functions.                                                     *)
(***************************************************************************)
\* kw is rest without its leading and trailing spaces: a stretch rest[i..j]
\* with nothing but spaces before and after it, itself empty or with no space
\* at either end
IsTrimOf(kw, rest) ==
    \E i \in 1..(Len(rest) + 1), j \in 0..Len(rest) :
        /\ i <= j + 1
        /\ kw = SubSeq(rest, i, j)
        /\ \A k \in 1..(i - 1) : rest[k] = SPACE
        /\ \A k \in (j + 1)..Len(rest) : rest[k] = SPACE
        /\ kw # <<>> => (kw[1] # SPACE /\ kw[Len(kw)] # SPACE)

\* C4: an invocation whose command line begins with "/gifs" calls
\* getMultipleGifsURL with the rest of the line (what follows the leading
\* "/gifs") less its leading and trailing spaces, the interior unchanged, also
\* when that is empty.
C4_GifsKeywords ==
    \A p \in Procs :
        inv[p].pc # "idle" =>
            /\ Called(p)
            /\ inv[p].calls[1].fn = "getMultipleGifsURL"
            /\ IsTrimOf(inv[p].calls[1].keywords,
                        SubSeq(inv[p].command, 6, Len(inv[p].command)))

\* C4's case: "/gifs k /gifs " has spaces on both sides, an inner space and a
\* second "/gifs", and gives "k /gifs"
C4_Witness ==
    \E p \in Procs :
        /\ inv[p].command = <<"/", "g", "i", "f", "s", SPACE, "k", SPACE,
                              "/", "g", "i", "f", "s", SPACE>>
        /\ Called(p)
        /\ inv[p].calls[1].keywords = <<"k", SPACE, "/", "g", "i", "f", "s">>

Placeholders == {PlaceholderKeywords, PlaceholderGifURL, PlaceholderViaGiphy}

\* the positions of t where a placeholder begins, and the placeholder there
\* (no placeholder is a prefix of another)
Occurrences(t) == {i \in 1..Len(t) : \E ph \in Placeholders : HasPrefixAt(t, i, ph)}
PlaceholderAt(t, i) == CHOOSE ph \in Placeholders : HasPrefixAt(t, i, ph)

\* those of the occurrences occ at positions <= n that overlap no earlier one
\* of these
RECURSIVE FirstComeUpTo(_, _, _)
FirstComeUpTo(t, occ, n) ==
    IF n = 0 THEN {}
    ELSE LET before == FirstComeUpTo(t, occ, n - 1)
         IN  IF /\ n \in occ
                /\ \A j \in before : j + Len(PlaceholderAt(t, j)) <= n
             THEN before \cup {n}
             ELSE before

FirstCome(t) == FirstComeUpTo(t, Occurrences(t), Len(t))

ValueOf(ph, keywords, gifURL) ==
    IF ph = PlaceholderKeywords THEN keywords
    ELSE IF ph = PlaceholderGifURL THEN gifURL
    ELSE <<"via ![giphy](https://giphy.com/static/img/favicon.png)">>

\* t with the occurrences at the positions R replaced by their values and
\* every other character in place
Substituted(t, R, keywords, gifURL) ==
    Flatten([i \in 1..Len(t) |->
        IF i \in R THEN ValueOf(PlaceholderAt(t, i), keywords, gifURL)
        ELSE IF \E j \in R : j < i /\ i < j + Len(PlaceholderAt(t, j)) THEN <<>>
        ELSE <<t[i]>>])

Permutations3 == {<<1, 2, 3>>, <<1, 3, 2>>, <<2, 1, 3>>, <<2, 3, 1>>, <<3, 1, 2>>, <<3, 2, 1>>}

\* the reply of "/gif" in slot p: its template, keywords and URL
GifReplied(p) ==
    /\ inv[p].pc = "returned"
    /\ inv[p].response # <<>>
    /\ inv[p].calls[1].fn = "getGifURL"

\* C5 as amended: the text of a "/gif" reply is the template with each
\* placeholder occurrence that overlaps no earlier replaced occurrence
\* replaced by its value, once, the inserted values not scanned again and
\* every other character in place; the order of the three pairs is
\* indifferent.
C5_TemplateSubstitution ==
    \A p \in Procs :
        GifReplied(p) =>
            LET t == inv[p].calls[1].config.ResponseTemplate
                kw == inv[p].calls[1].keywords
                url == inv[p].result[1].urls[1]
                pairs == ResponsePairs(kw, url)
            IN  /\ inv[p].response[1].Text = Substituted(t, FirstCome(t), kw, url)
                /\ \A perm \in Permutations3 :
                        ReplacerReplace([k \in 1..3 |-> pairs[perm[k]]], t)
                            = inv[p].response[1].Text

\* C5 as claimed: every occurrence of a placeholder in the template is
\* replaced.
C5_EveryOccurrenceReplaced ==
    \A p \in Procs :
        GifReplied(p) =>
            LET t == inv[p].calls[1].config.ResponseTemplate
            IN  inv[p].response[1].Text =
                    Substituted(t, Occurrences(t), inv[p].calls[1].keywords,
                                inv[p].result[1].urls[1])

\* C5's case: the template "##KEYWORDS##GIF_URL##", in which two occurrences
\* share "##", with keywords that are themselves a placeholder
C5_Witness ==
    \E p \in Procs :
        /\ GifReplied(p)
        /\ inv[p].calls[1].config.ResponseTemplate
                = PlaceholderKeywords \o <<"G", "I", "F", "_", "U", "R", "L", "#", "#">>
        /\ inv[p].calls[1].keywords = PlaceholderGifURL
        /\ inv[p].response[1].Text
                = PlaceholderGifURL \o <<"G", "I", "F", "_", "U", "R", "L", "#", "#">>

TabCount(s) == Cardinality({i \in 1..Len(s) : s[i] = TAB})

RECURSIVE SumLen(_)
SumLen(ss) == IF ss = <<>> THEN 0 ELSE Len(Head(ss)) + SumLen(Tail(ss))

\* the markdown image link of one URL
LinkOf(keywords, url) ==
    <<"[![GIF for '">> \o keywords \o <<"'](">> \o url \o <<")](">> \o url \o <<")">>

\* C6: the text of a "/gifs" reply for n URLs is the header, then the n links
\* in the provider's order, each at its place, one tab before every link but
\* the first and none after the last: n - 1 separating tabs (none for n = 0).
C6_GifsText ==
    \A p \in Procs :
        (/\ inv[p].pc = "returned"
         /\ inv[p].response # <<>>
         /\ inv[p].calls[1].fn = "getMultipleGifsURL") =>
            LET kw == inv[p].calls[1].keywords
                urls == inv[p].result[1].urls
                n == Len(urls)
                text == inv[p].response[1].Text
                header == <<" *Suggestions for '">> \o kw \o <<"':*">>
                links == [i \in 1..n |-> LinkOf(kw, urls[i])]
                start(i) == Len(header) + SumLen(SubSeq(links, 1, i - 1)) + i
            IN  /\ SubSeq(text, 1, Len(header)) = header
                /\ \A i \in 1..n :
                        /\ SubSeq(text, start(i), start(i) + Len(links[i]) - 1) = links[i]
                        /\ i > 1 => text[start(i) - 1] = TAB
                /\ Len(text) = Len(header) + SumLen(links) + (IF n = 0 THEN 0 ELSE n - 1)
                /\ TabCount(text) = (IF n = 0 THEN 0 ELSE n - 1) + (n + 1) * TabCount(kw)
                /\ inv[p].response[1].ResponseType = "ephemeral"

\* C6's case: three URLs, returned out of their numbering
C6_Witness ==
    \E p \in Procs :
        /\ inv[p].pc = "returned"
        /\ inv[p].command = CmdGifs
        /\ inv[p].response # <<>>
        /\ inv[p].result[1].urls = <<URL2, URL3, URL1>>

=============================================================================
